---- MODULE Spec2Model ----
(***************************************************************************)
(* Question extraction of the interview coach: parseModelQuestion          *)
(* (scripts/test_parse.js) and the parsing inside generateQuestion         *)
(* (geminiService), modelled as operators on strings.  A string is a       *)
(* sequence of one-character strings.                                      *)
(***************************************************************************)
EXTENDS Naturals, Sequences, FiniteSets

VARIABLES raw, response, pmq, gq

parseVars == <<raw, response, pmq, gq>>

\* authService: the two localStorage entries, the clock, the last call
VARIABLES users, session, now, authResult

authVars == <<users, session, now, authResult>>

\* InterviewSessionScreen: the view of the App, the screen's state and
\* refs, the recognition object that is listening (the state its
\* handleSubmit closed over), the async calls in flight, the stored
\* profile, and a log of the session's calls
VARIABLES view, messages, isLoading, showNextQuestionButton, isListening,
          recognition, sessionScores, previousQuestions, tasks, profile,
          sessionLog

screenVars == <<view, messages, isLoading, showNextQuestionButton,
                isListening, recognition, sessionScores, previousQuestions,
                tasks, profile, sessionLog>>

\* WebcamMonitor: its state and refs, the srcObject of the video element,
\* the callbacks the browser still owes it, what the browser offers, and a
\* log of its calls
VARIABLES mounted, status, errorMessage, streamRef, srcObject, intervalId,
          camTasks, browser, camLog

camVars == <<mounted, status, errorMessage, streamRef, srcObject,
             intervalId, camTasks, browser, camLog>>

\* Presence detection: whether a face is in view, the detect() calls in
\* flight and the absence timer of WebcamMonitor, and the counter, flags
\* and end-of-session timers of InterviewSessionScreen
VARIABLES face, detections, absenceTimer, absentCount, isUserPresent,
          absentLimitReached, endTimers

presenceVars == <<face, detections, absenceTimer, absentCount,
                  isUserPresent, absentLimitReached, endTimers>>

\* feedbackService: its localStorage entries, the clock, the last call and
\* a log of the calls
VARIABLES feedbackStore, fbClock, fbResult, fbLog

feedbackVars == <<feedbackStore, fbClock, fbResult, fbLog>>

\* the calendar day and the longest streak seen, for the profile on its own
VARIABLES clockDay, maxStreak

streakVars == <<clockDay, maxStreak>>

vars == <<parseVars, authVars, screenVars, camVars, presenceVars,
         feedbackVars, streakVars>>

----------------------------------------------------------------------------
(* Characters and the character classes of the regular expressions.        *)

Upper == <<"A","B","C","D","E","F","G","H","I","J","K","L","M",
           "N","O","P","Q","R","S","T","U","V","W","X","Y","Z">>

Lower == <<"a","b","c","d","e","f","g","h","i","j","k","l","m",
           "n","o","p","q","r","s","t","u","v","w","x","y","z">>

Digits == {"0","1","2","3","4","5","6","7","8","9"}

\* \s of a RegExp, String.prototype.trim and JSON whitespace, on the
\* characters the inputs are made of
Whitespace == {" ", "\t", "\n", "\r"}

UpperToLower ==
    [c \in {Upper[i] : i \in 1..26} |-> Lower[CHOOSE i \in 1..26 : Upper[i] = c]]

\* the /i flag: letters compare by their lower-case form
ToLower(c) == IF c \in DOMAIN UpperToLower THEN UpperToLower[c] ELSE c

LowerStr(s) == [i \in 1..Len(s) |-> ToLower(s[i])]

WordChars ==
    {Upper[i] : i \in 1..26} \cup {Lower[i] : i \in 1..26} \cup Digits \cup {"_"}

\* \w of a RegExp
IsWordChar(c) == c \in WordChars

----------------------------------------------------------------------------
(* String.prototype methods.                                               *)

Drop(s, n) == SubSeq(s, n + 1, Len(s))

StartsWith(s, p) == Len(s) >= Len(p) /\ SubSeq(s, 1, Len(p)) = p

StartsWithI(s, p) ==
    Len(s) >= Len(p) /\ LowerStr(SubSeq(s, 1, Len(p))) = LowerStr(p)

\* s.includes(c)
Includes(s, c) == \E i \in 1..Len(s) : s[i] = c

\* s.endsWith(c)
EndsWith(s, c) == Len(s) > 0 /\ s[Len(s)] = c

\* index of the first character from position i on that is not in set S
\* (Len(s) + 1 when there is none): the end of a greedy S* run
RECURSIVE SkipSet(_, _, _)
SkipSet(s, i, S) ==
    IF i <= Len(s) /\ s[i] \in S THEN SkipSet(s, i + 1, S) ELSE i

\* s.trim()
Trim(s) ==
    LET a == SkipSet(s, 1, Whitespace)
        b == IF a > Len(s) THEN 0
             ELSE CHOOSE j \in a..Len(s) :
                      /\ s[j] \notin Whitespace
                      /\ \A k \in (j + 1)..Len(s) : s[k] \in Whitespace
    IN  SubSeq(s, a, b)

\* s.split('?')[0]: the text before the first c (all of s without one)
BeforeFirst(s, c) ==
    IF Includes(s, c)
    THEN SubSeq(s, 1, (CHOOSE i \in 1..Len(s) :
                          s[i] = c /\ \A k \in 1..(i - 1) : s[k] # c) - 1)
    ELSE s

\* s.split(/\r?\n/)
RECURSIVE SplitNewlines(_)
SplitNewlines(s) ==
    IF ~Includes(s, "\n") THEN <<s>>
    ELSE LET i == Len(BeforeFirst(s, "\n")) + 1
             e == IF i > 1 /\ s[i - 1] = "\r" THEN i - 2 ELSE i - 1
         IN  <<SubSeq(s, 1, e)>> \o SplitNewlines(Drop(s, i))

\* .map(l => l.trim()).filter(Boolean)
RECURSIVE TrimmedNonEmpty(_)
TrimmedNonEmpty(ls) ==
    IF ls = <<>> THEN <<>>
    ELSE LET t == Trim(Head(ls))
         IN  (IF t = <<>> THEN <<>> ELSE <<t>>) \o TrimmedNonEmpty(Tail(ls))

\* lines.find(pred), from the values of pred on the lines: the index of the
\* first line satisfying it, 0 for undefined
FindIndex(hits) ==
    IF \E i \in 1..Len(hits) : hits[i]
    THEN CHOOSE i \in 1..Len(hits) : hits[i] /\ \A k \in 1..(i - 1) : ~hits[k]
    ELSE 0

----------------------------------------------------------------------------
(* The regular expressions of the two copies.                              *)

\* text.replace(/\s+/g, ' ')
RECURSIVE CollapseWhitespace(_)
CollapseWhitespace(s) ==
    IF s = <<>> THEN <<>>
    ELSE IF s[1] \in Whitespace
         THEN <<" ">> \o CollapseWhitespace(Drop(s, SkipSet(s, 1, Whitespace) - 1))
         ELSE <<s[1]>> \o CollapseWhitespace(Tail(s))

\* s.replace(/^[\d]+[\.\)]\s*/, '') and, in step 3, /^[\d]+[\.)]\s*/
StripNumberDot(s) ==
    LET d == SkipSet(s, 1, Digits)
    IN  IF d > 1 /\ d <= Len(s) /\ s[d] \in {".", ")"}
        THEN Drop(s, SkipSet(s, d + 1, Whitespace) - 1)
        ELSE s

\* s.replace(/^[\d]+[\.]?\)?\s*/, ''), the variant of generateQuestion
StripNumberLoose(s) ==
    LET d == SkipSet(s, 1, Digits)
        e == IF d <= Len(s) /\ s[d] = "." THEN d + 1 ELSE d
        f == IF e <= Len(s) /\ s[e] = ")" THEN e + 1 ELSE e
    IN  IF d > 1 THEN Drop(s, SkipSet(s, f, Whitespace) - 1) ELSE s

QuestionLabel == <<"Q","u","e","s","t","i","o","n">>

AskLabel == <<"A","s","k">>

\* s.replace(/^Question\s+[\d]+[\:\-\s]*/, '')
StripQuestionNumber(s) ==
    LET w == SkipSet(s, Len(QuestionLabel) + 1, Whitespace)
        d == SkipSet(s, w, Digits)
    IN  IF StartsWith(s, QuestionLabel) /\ w > Len(QuestionLabel) + 1 /\ d > w
        THEN Drop(s, SkipSet(s, d, {":", "-"} \cup Whitespace) - 1)
        ELSE s

\* length of the match of (Question|Q|Ask) under /i at the start of s, 0 for
\* no match; the alternatives are tried in this order
LabelLength(s) ==
    IF StartsWithI(s, QuestionLabel) THEN Len(QuestionLabel)
    ELSE IF StartsWithI(s, <<"Q">>) THEN 1
    ELSE IF StartsWithI(s, AskLabel) THEN Len(AskLabel)
    ELSE 0

\* s.replace(/^(Question|Q|Ask)[:\s]*/i, ''), parseModelQuestion
StripLabelColon(s) ==
    IF LabelLength(s) = 0 THEN s
    ELSE Drop(s, SkipSet(s, LabelLength(s) + 1, {":"} \cup Whitespace) - 1)

\* s.replace(/^(Question|Q|Ask)[:\s-]*/i, ''), keepOnlyFirstQuestion
StripLabelDash(s) ==
    IF LabelLength(s) = 0 THEN s
    ELSE Drop(s, SkipSet(s, LabelLength(s) + 1, {":", "-"} \cup Whitespace) - 1)

\* \bw\b under /i matching at position i of s (w in lower case, its first
\* and last characters word characters)
WordAt(s, i, w) ==
    /\ i + Len(w) - 1 <= Len(s)
    /\ ToLower(s[i]) = w[1]
    /\ LowerStr(SubSeq(s, i, i + Len(w) - 1)) = w
    /\ (i = 1 \/ ~IsWordChar(s[i - 1]))
    /\ (i + Len(w) > Len(s) \/ ~IsWordChar(s[i + Len(w)]))

QuestionWords ==
    { <<"w","h","a","t">>, <<"h","o","w">>, <<"w","h","y">>,
      <<"e","x","p","l","a","i","n">>, <<"d","e","s","c","r","i","b","e">>,
      <<"d","e","f","i","n","e">>, <<"i","m","p","l","e","m","e","n","t">>,
      <<"c","o","m","p","a","r","e">>,
      <<"d","i","f","f","e","r","e","n","c","e">>, <<"w","h","e","n">>,
      <<"w","h","e","r","e">>, <<"w","h","i","c","h">> }

\* questionWordRegex.test(l)
HasQuestionWord(l) ==
    \E i \in 1..Len(l) : \E w \in QuestionWords : WordAt(l, i, w)

Connectors ==
    { <<"a","l","s","o">>,
      <<"a","d","d","i","t","i","o","n","a","l","l","y">>,
      <<"a","n","d"," ","t","h","e","n">>, <<"n","e","x","t">>,
      <<"f","o","l","l","o","w"," ","u","p">>,
      <<"f","o","l","l","o","w","-","u","p">>,
      <<"a","s"," ","w","e","l","l"," ","a","s">> }

\* s.split(/\b(?:Also|Additionally|And then|Next|Follow up|Follow-up|As well as)\b/i)[0]
BeforeConnector(s) ==
    LET Hit(i) == \E w \in Connectors : WordAt(s, i, w)
    IN  IF \E i \in 1..Len(s) : Hit(i)
        THEN SubSeq(s, 1, (CHOOSE i \in 1..Len(s) :
                               Hit(i) /\ \A k \in 1..(i - 1) : ~Hit(k)) - 1)
        ELSE s

\* candidate.slice(0, candidate.search(/[.!]/) + 1) when the search finds one
UpToSentenceEnd(s) ==
    LET End(i) == s[i] \in {".", "!"}
    IN  IF \E i \in 1..Len(s) : End(i)
        THEN SubSeq(s, 1, CHOOSE i \in 1..Len(s) :
                              End(i) /\ \A k \in 1..(i - 1) : ~End(k))
        ELSE s

\* raw.match(/\{[\s\S]*\}/): from the first '{' to the last '}', <<>> for
\* no match
BraceMatch(s) ==
    LET Open(i) == s[i] = "{" /\ \E j \in (i + 1)..Len(s) : s[j] = "}"
    IN  IF \E i \in 1..Len(s) : Open(i)
        THEN SubSeq(s,
                    CHOOSE i \in 1..Len(s) : Open(i) /\ \A k \in 1..(i - 1) : ~Open(k),
                    CHOOSE j \in 1..Len(s) :
                        s[j] = "}" /\ \A k \in (j + 1)..Len(s) : s[k] # "}")
        ELSE <<>>

----------------------------------------------------------------------------
(* JSON.parse, on texts without '[' and without backslash.  A position is  *)
(* an index into the text; an end position of 0 is a SyntaxError.          *)

\* a string literal opening at the quote s[i]: the position after its
\* closing quote; control characters may not appear unescaped
JsonStringEnd(s, i) ==
    LET Close(j) == s[j] = "\""
    IN  IF \E j \in (i + 1)..Len(s) : Close(j)
        THEN LET j == CHOOSE j \in (i + 1)..Len(s) :
                          Close(j) /\ \A k \in (i + 1)..(j - 1) : ~Close(k)
             IN  IF \A k \in (i + 1)..(j - 1) : s[k] \notin {"\n", "\r", "\t"}
                 THEN j + 1 ELSE 0
        ELSE 0

\* s[k], "" past the end of s
CharAt(s, k) == IF k <= Len(s) THEN s[k] ELSE ""

\* the end of the digits from s[x] on, the exponent's; c when there are none
ExponentEnd(s, c, x) ==
    IF SkipSet(s, x, Digits) > x THEN SkipSet(s, x, Digits) ELSE c

\* ([eE][+-]?\d+)? at s[c]
NumberExponent(s, c) ==
    IF CharAt(s, c) \notin {"e", "E"} THEN c
    ELSE ExponentEnd(s, c, IF CharAt(s, c + 1) \in {"+", "-"} THEN c + 2 ELSE c + 1)

\* (\.\d+)? at s[b], then the exponent
NumberFraction(s, b) ==
    IF CharAt(s, b) = "." /\ SkipSet(s, b + 1, Digits) > b + 1
    THEN NumberExponent(s, SkipSet(s, b + 1, Digits))
    ELSE NumberExponent(s, b)

\* (0|[1-9]\d*) at s[a], then the rest; 0 without a digit
NumberInteger(s, a) ==
    IF CharAt(s, a) = "0" THEN NumberFraction(s, a + 1)
    ELSE IF CharAt(s, a) \in Digits THEN NumberFraction(s, SkipSet(s, a, Digits))
    ELSE 0

\* a number starting at s[i]: -?(0|[1-9]\d*)(\.\d+)?([eE][+-]?\d+)?
JsonNumberEnd(s, i) ==
    IF CharAt(s, i) = "-" THEN NumberInteger(s, i + 1) ELSE NumberInteger(s, i)

JsonLiterals ==
    { <<"t","r","u","e">>, <<"f","a","l","s","e">>, <<"n","u","l","l">> }

NoQuestion == [kind |-> "absent", value |-> <<>>]

JsonFail == [end |-> 0, question |-> NoQuestion]

RECURSIVE JsonValueEnd(_, _), JsonMembers(_, _, _)

\* the `question` member after the member with key s[i+1..ke-2] and the
\* value s[v..ve-1]: a later duplicate key replaces an earlier one
QuestionAfter(s, i, ke, v, ve, q) ==
    IF SubSeq(s, i + 1, ke - 2) # LowerStr(QuestionLabel) THEN q
    ELSE IF s[v] = "\""
         THEN [kind |-> "string", value |-> SubSeq(s, v + 1, ve - 2)]
         ELSE [kind |-> "other", value |-> <<>>]

\* after a member's value, at the non-blank s[n]: the closing brace or a
\* comma and the next member
AfterValue(s, n, q) ==
    IF n > Len(s) THEN JsonFail
    ELSE IF s[n] = "}" THEN [end |-> n + 1, question |-> q]
    ELSE IF s[n] = "," THEN JsonMembers(s, SkipSet(s, n + 1, Whitespace), q)
    ELSE JsonFail

\* a member's value s[v..ve-1] (ve = 0: none)
MemberValue(s, i, ke, v, ve, q) ==
    IF ve = 0 THEN JsonFail
    ELSE AfterValue(s, SkipSet(s, ve, Whitespace), QuestionAfter(s, i, ke, v, ve, q))

\* after a member's key, at the non-blank s[c]: the colon and the value
AfterKey(s, i, ke, c, q) ==
    IF c > Len(s) THEN JsonFail
    ELSE IF s[c] # ":" THEN JsonFail
    ELSE MemberValue(s, i, ke, SkipSet(s, c + 1, Whitespace),
                     JsonValueEnd(s, SkipSet(s, c + 1, Whitespace)), q)

\* a member's key, the string literal s[i..ke-1] (ke = 0: none)
MemberKey(s, i, ke, q) ==
    IF ke = 0 THEN JsonFail ELSE AfterKey(s, i, ke, SkipSet(s, ke, Whitespace), q)

\* the members of an object from the key at s[i] to the closing brace; q is
\* the `question` member seen so far
JsonMembers(s, i, q) ==
    IF i <= Len(s) /\ s[i] = "\"" THEN MemberKey(s, i, JsonStringEnd(s, i), q)
    ELSE JsonFail

\* an object from the non-blank s[k] after its opening brace
JsonObject(s, k) ==
    IF k <= Len(s) /\ s[k] = "}" THEN [end |-> k + 1, question |-> NoQuestion]
    ELSE JsonMembers(s, k, NoQuestion)

\* the value starting at s[i]: the position after it
JsonValueEnd(s, i) ==
    IF i > Len(s) THEN 0
    ELSE IF s[i] = "\"" THEN JsonStringEnd(s, i)
    ELSE IF s[i] = "{" THEN JsonObject(s, SkipSet(s, i + 1, Whitespace)).end
    ELSE IF s[i] \in Digits \cup {"-"} THEN JsonNumberEnd(s, i)
    ELSE IF \E w \in JsonLiterals : StartsWith(Drop(s, i - 1), w)
         THEN i + Len(CHOOSE w \in JsonLiterals : StartsWith(Drop(s, i - 1), w))
    ELSE 0

\* the value s[i..e-1] that is all of the text but blanks (e = 0: none)
ParsedValue(text, i, e) ==
    IF e = 0 \/ SkipSet(text, e, Whitespace) <= Len(text)
    THEN [kind |-> "throw", question |-> NoQuestion]
    ELSE [kind |-> "value",
          question |-> IF text[i] = "{"
                       THEN JsonObject(text, SkipSet(text, i + 1, Whitespace)).question
                       ELSE NoQuestion]

\* JSON.parse(text): "throw" for a SyntaxError, else what the guard
\* `parsed && typeof parsed.question === 'string'` reads of the value
JsonParse(text) ==
    ParsedValue(text, SkipSet(text, 1, Whitespace),
                JsonValueEnd(text, SkipSet(text, 1, Whitespace)))

----------------------------------------------------------------------------
(* parseModelQuestion.  The result of a run is a record: kind is "string"  *)
(* (value holds the returned text), "null" or "throw" (an exception left   *)
(* the function); path, lines, selected and normalized are the values of   *)
(* the run's locals.                                                       *)

Fallthrough == [kind |-> "fallthrough", value |-> <<>>]

\* EmbeddedJson with the question field put through the heuristic's
\* truncation and '?' completion
EmbeddedJsonSanitized(text) ==
    LET jsonMatch == BraceMatch(text)
        parsed == JsonParse(jsonMatch)
        q == Trim(parsed.question.value)
        cut == IF Includes(q, "?") /\ Trim(BeforeFirst(q, "?")) # <<>>
               THEN Trim(BeforeFirst(q, "?")) \o <<"?">> ELSE q
    IN  IF jsonMatch = <<>> THEN Fallthrough
        ELSE IF parsed.kind = "throw" THEN [kind |-> "throw", value |-> <<>>]
        ELSE IF parsed.question.kind = "string" /\ Len(q) > 0
             THEN [kind |-> "return",
                   value |-> IF EndsWith(cut, "?") THEN cut ELSE cut \o <<"?">>]
        ELSE Fallthrough

\* EmbeddedJson returning any string question field, the empty one too
EmbeddedJsonAnyString(text) ==
    LET jsonMatch == BraceMatch(text)
        parsed == JsonParse(jsonMatch)
    IN  IF jsonMatch = <<>> THEN Fallthrough
        ELSE IF parsed.kind = "throw" THEN [kind |-> "throw", value |-> <<>>]
        ELSE IF parsed.question.kind = "string"
             THEN [kind |-> "return", value |-> Trim(parsed.question.value)]
        ELSE Fallthrough

\* the body of the try block around the embedded-JSON attempt
EmbeddedJson(text) ==
    LET jsonMatch == BraceMatch(text)
        parsed == JsonParse(jsonMatch)
    IN  IF jsonMatch = <<>> THEN Fallthrough
        ELSE IF parsed.kind = "throw" THEN [kind |-> "throw", value |-> <<>>]
        ELSE IF /\ parsed.question.kind = "string"
                /\ Len(Trim(parsed.question.value)) > 0
             THEN [kind |-> "return", value |-> Trim(parsed.question.value)]
        ELSE Fallthrough

\* a try block without its catch: the throw leaves the function
CatchNothing(r) == r

\* try { ... } catch (e) { }: a throw inside the block falls through
Catch(r) == IF r.kind = "throw" THEN Fallthrough ELSE r

\* cleanText.split(/\r?\n/).map(l => l.trim()).filter(Boolean)
CandidateLines(cleanText) == TrimmedNonEmpty(SplitNewlines(cleanText))

HasQuestionMark(l) == Includes(l, "?")

\* the `l && l.length > 5` of step 3
LongEnough(l) == Len(l) > 5

\* SelectCandidate with steps 1) and 2) in the other order
SelectCandidateWordFirst(lines) ==
    LET q == FindIndex([i \in 1..Len(lines) |-> HasQuestionMark(lines[i])])
        w == FindIndex([i \in 1..Len(lines) |-> HasQuestionWord(lines[i])])
        stripped == [i \in 1..Len(lines) |-> StripNumberDot(lines[i])]
        n == FindIndex([i \in 1..Len(lines) |-> LongEnough(stripped[i])])
    IN  IF w > 0 THEN lines[w]
        ELSE IF q > 0 THEN lines[q]
        ELSE IF n > 0 THEN stripped[n]
        ELSE IF Len(lines) > 0 THEN lines[1]
        ELSE <<>>

\* steps 1) to 3): the candidate line, <<>> when there are no lines
\* SelectCandidate without its third rule
SelectCandidateNoLengthRule(lines) ==
    LET q == FindIndex([i \in 1..Len(lines) |-> HasQuestionMark(lines[i])])
        w == FindIndex([i \in 1..Len(lines) |-> HasQuestionWord(lines[i])])
    IN  IF q > 0 THEN lines[q]
        ELSE IF w > 0 THEN lines[w]
        ELSE IF Len(lines) > 0 THEN lines[1]
        ELSE <<>>

SelectCandidate(lines) ==
    LET q == FindIndex([i \in 1..Len(lines) |-> HasQuestionMark(lines[i])])
        w == FindIndex([i \in 1..Len(lines) |-> HasQuestionWord(lines[i])])
        stripped == [i \in 1..Len(lines) |-> StripNumberDot(lines[i])]
        n == FindIndex([i \in 1..Len(lines) |-> LongEnough(stripped[i])])
    IN  IF q > 0 THEN lines[q]
        ELSE IF w > 0 THEN lines[w]
        ELSE IF n > 0 THEN stripped[n]
        ELSE IF Len(lines) > 0 THEN lines[1]
        ELSE <<>>

\* if (c.includes('?')) { firstQ = c.split('?')[0].trim(); c = firstQ ? firstQ + '?' : c }
FirstQuestion(c) ==
    LET firstQ == Trim(BeforeFirst(c, "?"))
    IN  IF Includes(c, "?") /\ firstQ # <<>> THEN firstQ \o <<"?">> ELSE c

\* candidateLine ? (candidateLine.endsWith('?') ? candidateLine : candidateLine + '?') : ''
WithQuestionMark(c) ==
    IF c = <<>> THEN <<>>
    ELSE IF EndsWith(c, "?") THEN c
    ELSE c \o <<"?">>

\* if (!question || question === '?') return null
Rejected(question) == question = <<>> \/ question = <<"?">>

\* the candidate line of parseModelQuestion after its prefix and label are removed
NormalizeLine(candidateLine) ==
    Trim(StripLabelColon(StripNumberDot(candidateLine)))

\* raw.replace(/^[\d]+[\.\)]\s*/, '').replace(/^Question\s+[\d]+[\:\-\s]*/, '').trim()
CleanText(text) == Trim(StripQuestionNumber(StripNumberDot(text)))

\* the heuristic path: everything after the try block
Heuristic(text) ==
    LET lines == CandidateLines(CleanText(text))
        selected == SelectCandidate(lines)
        normalized == NormalizeLine(selected)
        question == WithQuestionMark(FirstQuestion(normalized))
    IN  [kind |-> IF Rejected(question) THEN "null" ELSE "string",
         value |-> IF Rejected(question) THEN <<>> ELSE question,
         path |-> "heuristic",
         lines |-> lines, selected |-> selected, normalized |-> normalized]

parseModelQuestion(input) ==
    LET text == Trim(input)
        json == Catch(EmbeddedJson(text))
    IN  IF json.kind # "fallthrough"
        THEN [kind |-> IF json.kind = "return" THEN "string" ELSE "throw",
              value |-> json.value, path |-> "json",
              lines |-> <<>>, selected |-> <<>>, normalized |-> <<>>]
        ELSE Heuristic(text)

----------------------------------------------------------------------------
(* generateQuestion, from the model's response text on.                    *)

RetryMessage ==
    << "I","'","m"," ","h","a","v","i","n","g"," ","t","r","o","u","b","l",
       "e"," ","c","o","m","i","n","g"," ","u","p"," ","w","i","t","h"," ",
       "a"," ","q","u","e","s","t","i","o","n"," ","r","i","g","h","t"," ",
       "n","o","w","."," ","L","e","t","'","s"," ","t","r","y"," ","a","g",
       "a","i","n"," ","i","n"," ","a"," ","m","o","m","e","n","t","." >>

keepOnlyFirstQuestion(text) ==
    LET collapsed == Trim(CollapseWhitespace(text))
        unlabelled == Trim(StripLabelDash(StripNumberLoose(collapsed)))
        candidate == Trim(BeforeConnector(unlabelled))
    IN  IF text = <<>> THEN <<>>
        ELSE IF Includes(candidate, "?") THEN FirstQuestion(candidate)
        ELSE Trim(UpToSentenceEnd(candidate))

\* the body of the first try block: JSON.parse of the whole response
SchemaJson(text) ==
    LET parsed == JsonParse(text)
        single == keepOnlyFirstQuestion(parsed.question.value)
    IN  IF parsed.kind = "throw" THEN [kind |-> "throw", value |-> <<>>]
        ELSE IF parsed.question.kind = "string" /\ single # <<>>
             THEN [kind |-> "return", value |-> single]
        ELSE Fallthrough

\* raw.replace(/^[\d]+[\.]?\)?\s*/, '').replace(/^Question\s+[\d]+[\:\-\s]*/, '').trim()
CleanTextLoose(text) == Trim(StripQuestionNumber(StripNumberLoose(text)))

\* the body of the outer try block
GenerateBody(responseText) ==
    LET text == Trim(responseText)
        schema == Catch(SchemaJson(text))
        json == Catch(EmbeddedJson(text))
        lines == CandidateLines(CleanTextLoose(text))
        selected == SelectCandidate(lines)
        normalized == keepOnlyFirstQuestion(selected)
        question == WithQuestionMark(normalized)
        Found(r, p) ==
            [kind |-> IF r.kind = "return" THEN "string" ELSE "throw",
             value |-> r.value, path |-> p,
             lines |-> <<>>, selected |-> <<>>, normalized |-> <<>>]
    IN  IF schema.kind # "fallthrough" THEN Found(schema, "schema")
        ELSE IF json.kind # "fallthrough" THEN Found(json, "json")
        ELSE [kind |-> "string",
              value |-> IF Rejected(question) THEN RetryMessage ELSE question,
              path |-> "heuristic",
              lines |-> lines, selected |-> selected, normalized |-> normalized]

\* what generateContent does: it resolves with the text, resolves with a
\* response that has no text, or rejects
Responses == {"text", "no_text", "rejects"}

Thrown == [kind |-> "throw", value |-> <<>>, path |-> "",
           lines |-> <<>>, selected |-> <<>>, normalized |-> <<>>]

\* the outer try block: the awaited call, then (response.text || '')
GenerateTry(outcome, responseText) ==
    IF outcome = "rejects" THEN Thrown
    ELSE IF outcome = "no_text" THEN GenerateBody(<<>>)
    ELSE GenerateBody(responseText)

\* generateQuestion without its outer catch: a rejection leaves the function
generateQuestionUncaught(outcome, responseText) ==
    GenerateTry(outcome, responseText)

\* } catch (error) { return "I'm having trouble ..." }
generateQuestion(outcome, responseText) ==
    LET r == GenerateTry(outcome, responseText)
    IN  IF r.kind = "throw"
        THEN [r EXCEPT !.kind = "string", !.value = RetryMessage, !.path = "catch"]
        ELSE r

----------------------------------------------------------------------------
(* The inputs: every concatenation of at most MaxPieces pieces of prose    *)
(* and every concatenation of at most MaxJsonPieces pieces of JSON text.   *)

MaxPieces == 4

MaxJsonPieces == 4

Pieces ==
    { <<"W","h","a","t">>, <<"a">>, <<"?">>, <<" ">>, <<"\n">>,
      <<"1",".">>, <<"Q">>, <<":">>, <<"-">> }

JsonPieces ==
    { <<"{","\"","q","u","e","s","t","i","o","n","\"",":","\"">>,
      <<"\"","}">>, <<"{">>, <<"}">>, <<"a">>, <<"?">>, <<" ">> }

RECURSIVE Concat(_)
Concat(ps) == IF ps = <<>> THEN <<>> ELSE Head(ps) \o Concat(Tail(ps))

Texts(P, max) == { Concat(ps) : ps \in UNION { [1..n -> P] : n \in 0..max } }

Inputs(maxPieces, maxJsonPieces) ==
    Texts(Pieces, maxPieces) \cup Texts(JsonPieces, maxJsonPieces)

----------------------------------------------------------------------------
(* authService.  users is the list under USERS_KEY and session the entry   *)
(* under CURRENT_SESSION_KEY; an absent entry and an absent value are the  *)
(* empty sequence, a present one a one-element sequence.  Users and        *)
(* sessions hold strings only, which JSON.stringify and JSON.parse give    *)
(* back unchanged, so the entries hold the values themselves.              *)

MaxUsers == 2

MaxClock == 1

MinUsernameLength == 3

Usernames ==
    { <<"b","o","b">>, <<"B","o","b">>, <<"b","o","b"," ">>,
      <<"a","m","y">>, <<"a","l">>, <<>> }

Emails ==
    { <<"a","@","x">>, <<"A","@","x">>, <<"a","@","x"," ">>,
      <<"b","@","x">>, <<"a","x">>, <<>> }

\* data ? JSON.parse(data) : []
getAllUsers(data) == data

\* localStorage.getItem(CURRENT_SESSION_KEY), then session.user or null
getCurrentUser(data) == IF data = <<>> THEN <<>> ELSE <<data[1].user>>

isLoggedIn(data) == getCurrentUser(data) # <<>>

\* the entry setCurrentSession(user) writes at time t
setCurrentSession(user, t) == <<[user |-> user, loginTime |-> t]>>

\* a call that returns success: false before it writes anything
Refused(us, se) ==
    [success |-> FALSE, user |-> <<>>, users |-> us, session |-> se]

\* the user is stored; the session is left as it was
RegisteredNoLogin(us, se, username, email, t) ==
    LET newUser == [id |-> t, username |-> Trim(username),
                    email |-> LowerStr(Trim(email)), createdAt |-> t]
    IN  [success |-> TRUE, user |-> <<newUser>>,
         users |-> Append(us, newUser), session |-> se]

\* lines 67-80: the new user is stored and logged in
Registered(us, se, username, email, t) ==
    LET newUser == [id |-> t, username |-> Trim(username),
                    email |-> LowerStr(Trim(email)), createdAt |-> t]
    IN  [success |-> TRUE, user |-> <<newUser>>,
         users |-> Append(us, newUser),
         session |-> setCurrentSession(newUser, t)]

registerUser(us, se, username, email, t) ==
    IF username = <<>> \/ Len(Trim(username)) < MinUsernameLength
    THEN Refused(us, se)
    ELSE IF email = <<>> \/ ~Includes(email, "@")
    THEN Refused(us, se)
    ELSE IF \E i \in 1..Len(getAllUsers(us)) :
                LowerStr(us[i].email) = LowerStr(email)
    THEN Refused(us, se)
    ELSE IF \E i \in 1..Len(getAllUsers(us)) :
                LowerStr(us[i].username) = LowerStr(username)
    THEN Refused(us, se)
    ELSE Registered(us, se, username, email, t)

\* users.find(u => u.email.toLowerCase() === email.toLowerCase())
FindByEmail(us, email) ==
    FindIndex([i \in 1..Len(us) |-> LowerStr(us[i].email) = LowerStr(email)])

loginUser(us, se, email, t) ==
    IF email = <<>> \/ ~Includes(email, "@")
    THEN Refused(us, se)
    ELSE IF FindByEmail(getAllUsers(us), email) = 0
    THEN Refused(us, se)
    ELSE [success |-> TRUE, user |-> <<us[FindByEmail(us, email)]>>,
          users |-> us,
          session |-> setCurrentSession(us[FindByEmail(us, email)], t)]

\* localStorage.removeItem(CURRENT_SESSION_KEY)
logoutUser(se) == <<>>

NoCall == [op |-> "", success |-> FALSE, user |-> <<>>]

AuthInit ==
    /\ users = <<>>
    /\ session = <<>>
    /\ now = 0
    /\ authResult = NoCall

\* the effect of a register or login call whose outcome is r
AuthCall(op, r, t) ==
    /\ users' = r.users
    /\ session' = r.session
    /\ now' = IF r.success THEN t ELSE now
    /\ authResult' = [op |-> op, success |-> r.success, user |-> r.user]
    /\ UNCHANGED <<parseVars, screenVars, camVars, presenceVars, feedbackVars,
                   streakVars>>

RegisterUser ==
    /\ Len(users) < MaxUsers
    /\ \E username \in Usernames, email \in Emails, t \in now..MaxClock :
           AuthCall("registerUser",
                    registerUser(users, session, username, email, t), t)

LoginUser ==
    \E email \in Emails, t \in now..MaxClock :
        AuthCall("loginUser", loginUser(users, session, email, t), t)

LogoutUser ==
    /\ session' = logoutUser(session)
    /\ authResult' = [op |-> "logoutUser", success |-> TRUE, user |-> <<>>]
    /\ UNCHANGED <<users, now, parseVars, screenVars, camVars, presenceVars,
                   feedbackVars, streakVars>>

AuthNext == RegisterUser \/ LoginUser \/ LogoutUser

----------------------------------------------------------------------------
(* profileService.  A score and an average are exact fractions num/den     *)
(* (the code computes them in floating point); a date is the number of its *)
(* local calendar day; lastSessionDate is empty for null.                  *)

Subjects == {"Python"}

Days == {0, 1, 2}

defaultProfile ==
    [interviewsCompleted |-> 0, averageScore |-> [num |-> 0, den |-> 1],
     currentStreak |-> 0, longestStreak |-> 0, lastSessionDate |-> <<>>,
     badges |-> <<>>, subjectStats |-> [s \in {} |-> 0]]

\* profile.subjectStats[subject] ?? 0
SubjectStat(p, subject) ==
    IF subject \in DOMAIN p.subjectStats
    THEN p.subjectStats[subject] ELSE 0

allBadges ==
    << "First Step", "High Achiever", "Perfect Score", "Pythonista",
       "Java Master", "Algo Expert", "Hot Streak" >>

\* badge.condition(profile, subject, score)
BadgeCondition(name, p, score) ==
    CASE name = "First Step" -> p.interviewsCompleted >= 1
      [] name = "High Achiever" -> p.averageScore.num >= 8 * p.averageScore.den
      [] name = "Perfect Score" -> score.num = 10 * score.den
      [] name = "Pythonista" -> SubjectStat(p, "Python") >= 5
      [] name = "Java Master" -> SubjectStat(p, "Java") >= 5
      [] name = "Algo Expert" ->
             SubjectStat(p, "Data Structures and Algorithms") >= 5
      [] name = "Hot Streak" -> p.currentStreak >= 3

\* allBadges.forEach(...), from badge k on
RECURSIVE AwardBadges(_, _, _, _)
AwardBadges(badges, k, p, score) ==
    IF k > Len(allBadges) THEN badges
    ELSE IF /\ \A i \in 1..Len(badges) : badges[i] # allBadges[k]
            /\ BadgeCondition(allBadges[k], p, score)
         THEN AwardBadges(Append(badges, allBadges[k]), k + 1, p, score)
    ELSE AwardBadges(badges, k + 1, p, score)

\* lines 72-74: (averageScore * interviewsCompleted + score) / (count + 1)
NewAverage(average, count, score) ==
    [num |-> average.num * count * score.den + score.num * average.den,
     den |-> average.den * score.den * (count + 1)]

\* a session after a gap goes on counting
NewStreakNoReset(p, today) ==
    IF p.lastSessionDate = <<>> THEN 1
    ELSE IF p.lastSessionDate[1] = today THEN p.currentStreak
    ELSE p.currentStreak + 1

\* lines 80-93
NewStreak(p, today) ==
    IF p.lastSessionDate = <<>> THEN 1
    ELSE IF p.lastSessionDate[1] = today THEN p.currentStreak
    ELSE IF p.lastSessionDate[1] + 1 = today THEN p.currentStreak + 1
    ELSE 1

\* lines 68-98, before the badges
UpdatedStats(p, subject, score, today) ==
    [p EXCEPT
        !.interviewsCompleted = p.interviewsCompleted + 1,
        !.averageScore = NewAverage(p.averageScore, p.interviewsCompleted, score),
        !.subjectStats =
            [s \in DOMAIN p.subjectStats \cup {subject} |->
                IF s = subject THEN SubjectStat(p, s) + 1 ELSE p.subjectStats[s]],
        !.currentStreak = NewStreak(p, today),
        !.lastSessionDate = <<today>>,
        !.longestStreak = IF NewStreak(p, today) > p.longestStreak
                          THEN NewStreak(p, today) ELSE p.longestStreak]

updateProfileOnSessionEnd(stored, subject, score, today) ==
    LET p == UpdatedStats(stored, subject, score, today)
    IN  [p EXCEPT !.badges = AwardBadges(p.badges, 1, p, score)]

\* the stored profile of a user who has one session behind them
ProfileAfterOneSession ==
    updateProfileOnSessionEnd(defaultProfile, "Python", [num |-> 6, den |-> 1], 0)

StoredProfiles == {defaultProfile, ProfileAfterOneSession}

----------------------------------------------------------------------------
(* InterviewSessionScreen.  Every state update is followed by its render,  *)
(* so a handler called from the page sees the current state, while the     *)
(* recognition object that is listening keeps the handleSubmit of the      *)
(* render in which it was created.  avatarState, userInput and the texts   *)
(* of system messages only feed the display and are left out; the text in  *)
(* the input box is whatever the user has typed when they submit.          *)

MaxTurns == 2

MaxAnswers == 2

Message(role, text, feedback) ==
    [role |-> role, text |-> text, feedback |-> feedback]

Task(kind, lastQuestion, feedback) ==
    [kind |-> kind, lastQuestion |-> lastQuestion, feedback |-> feedback]

RemoveAt(seq, i) == SubSeq(seq, 1, i - 1) \o SubSeq(seq, i + 1, Len(seq))

\* what the model service does on a generateQuestion call
SessionResponses ==
    { <<"rejects", <<>> >>,
      <<"text", <<"a","?">> >> }

\* what generateQuestion resolves to on those
GeneratedQuestions ==
    { generateQuestion(resp[1], resp[2]).value : resp \in SessionResponses }

\* what evaluateAnswer resolves to: the parsed feedback, or the error one
Scores == {7, 10}

Feedbacks ==
    { [error |-> FALSE, score |-> n] : n \in Scores }
        \cup { [error |-> TRUE, score |-> 0] }

\* what the user types or says
AnswerTexts == { <<" ">>, <<"x">> }

\* [...messages].reverse().find(m => m.role === 'model')?.text
RECURSIVE LastQuestion(_)
LastQuestion(msgs) ==
    IF msgs = <<>> THEN <<>>
    ELSE IF msgs[Len(msgs)].role = "model" THEN msgs[Len(msgs)].text
    ELSE LastQuestion(SubSeq(msgs, 1, Len(msgs) - 1))

\* sessionScores.current.reduce((a, b) => a + b, 0)
RECURSIVE SumScores(_)
SumScores(scores) ==
    IF scores = <<>> THEN 0 ELSE Head(scores) + SumScores(Tail(scores))

\* the score is pushed whether or not the evaluation failed
PushAnyScore(scores, feedback) == Append(scores, feedback.score)

\* if (!feedback.error) sessionScores.current.push(feedback.score)
PushScore(scores, feedback) ==
    IF ~feedback.error THEN Append(scores, feedback.score) ELSE scores

NewTurnLog(log) ==
    [log EXCEPT !.turns = log.turns + 1, !.turnEvaluations = 0,
                !.turnPushes = 0]

\* the mounted screen: the first message is set and startNewTurn has made
\* its call; the profile is what an earlier session left
ScreenInit ==
    /\ view = "session"
    /\ messages = << Message("system", <<>>, <<>>) >>
    /\ isLoading = TRUE
    /\ showNextQuestionButton = FALSE
    /\ isListening = FALSE
    /\ recognition = <<>>
    /\ sessionScores = <<>>
    /\ previousQuestions = <<>>
    /\ tasks = << Task("generateQuestion", <<>>, <<>>) >>
    /\ profile \in StoredProfiles
    /\ sessionLog = [turns |-> 1, turnEvaluations |-> 0, turnPushes |-> 0,
                     answers |-> 0, feedbacks |-> <<>>, updates |-> <<>>,
                     startProfile |-> profile]

\* no session screen is shown
ScreenIdle ==
    /\ view = "dashboard"
    /\ messages = <<>>
    /\ isLoading = FALSE
    /\ showNextQuestionButton = FALSE
    /\ isListening = FALSE
    /\ recognition = <<>>
    /\ sessionScores = <<>>
    /\ previousQuestions = <<>>
    /\ tasks = <<>>
    /\ profile = defaultProfile
    /\ sessionLog = [turns |-> 0, turnEvaluations |-> 0, turnPushes |-> 0,
                     answers |-> 0, feedbacks |-> <<>>, updates |-> <<>>,
                     startProfile |-> defaultProfile]

\* handleSubmit of the render whose state is closure, up to its first await
handleSubmit(closure, text) ==
    IF Trim(text) = <<>> \/ closure.isLoading
    THEN UNCHANGED <<isLoading, messages, tasks, sessionLog>>
    ELSE IF LastQuestion(closure.messages) = <<>>
    THEN /\ isLoading' = FALSE
         /\ UNCHANGED <<messages, tasks, sessionLog>>
    ELSE /\ isLoading' = TRUE
         /\ messages' = Append(messages, Message("user", Trim(text), <<>>))
         /\ tasks' = Append(tasks, Task("evaluateAnswer",
                                        LastQuestion(closure.messages), <<>>))
         /\ sessionLog' =
                [sessionLog EXCEPT
                    !.answers = sessionLog.answers + 1,
                    !.turnEvaluations = sessionLog.turnEvaluations + 1]

\* Enter in the input box, or the Send button
SubmitTyped ==
    /\ view = "session"
    /\ ~isLoading /\ ~showNextQuestionButton
    /\ sessionLog.answers < MaxAnswers
    /\ \E text \in AnswerTexts :
           handleSubmit([isLoading |-> isLoading, messages |-> messages], text)
    /\ UNCHANGED <<view, showNextQuestionButton, isListening, recognition,
                   sessionScores, previousQuestions, profile>>
    /\ UNCHANGED <<parseVars, authVars, camVars, presenceVars, feedbackVars,
                   streakVars>>

\* the microphone button: stop() on the current object, whose end comes as
\* an event of its own, or start() and the onstart that follows
toggleListen ==
    /\ view = "session"
    /\ ~isLoading /\ ~showNextQuestionButton
    /\ IF isListening
       THEN UNCHANGED <<isListening, recognition>>
       ELSE /\ isListening' = TRUE
            /\ recognition' =
                   << [isLoading |-> isLoading, messages |-> messages] >>
    /\ UNCHANGED <<view, messages, isLoading, showNextQuestionButton,
                   sessionScores, previousQuestions, tasks, profile,
                   sessionLog>>
    /\ UNCHANGED <<parseVars, authVars, camVars, presenceVars, feedbackVars,
                   streakVars>>

\* onresult with a final result on the listening object, then its onend
RecognitionResult ==
    /\ view = "session"
    /\ recognition # <<>>
    /\ sessionLog.answers < MaxAnswers
    /\ \E text \in AnswerTexts : handleSubmit(recognition[1], text)
    /\ isListening' = FALSE
    /\ recognition' = <<>>
    /\ UNCHANGED <<view, showNextQuestionButton, sessionScores,
                   previousQuestions, profile>>
    /\ UNCHANGED <<parseVars, authVars, camVars, presenceVars, feedbackVars,
                   streakVars>>

\* onend or onerror without a final result
RecognitionEnds ==
    /\ view = "session"
    /\ recognition # <<>>
    /\ isListening' = FALSE
    /\ recognition' = <<>>
    /\ UNCHANGED <<view, messages, isLoading, showNextQuestionButton,
                   sessionScores, previousQuestions, tasks, profile,
                   sessionLog>>
    /\ UNCHANGED <<parseVars, authVars, camVars, presenceVars, feedbackVars,
                   streakVars>>

\* startNewTurn after generateQuestion has resolved
QuestionArrives ==
    /\ view = "session"
    /\ \E i \in 1..Len(tasks), question \in GeneratedQuestions :
           /\ tasks[i].kind = "generateQuestion"
           /\ previousQuestions' = Append(previousQuestions, question)
           /\ messages' = Append(messages, Message("model", question, <<>>))
           /\ tasks' = RemoveAt(tasks, i)
    /\ isLoading' = FALSE
    /\ UNCHANGED <<view, showNextQuestionButton, isListening, recognition,
                   sessionScores, profile, sessionLog>>
    /\ UNCHANGED <<parseVars, authVars, camVars, presenceVars, feedbackVars,
                   streakVars>>

\* handleSubmit after evaluateAnswer has resolved, up to the pause
EvaluationArrives ==
    /\ view = "session"
    /\ \E i \in 1..Len(tasks), feedback \in Feedbacks :
           /\ tasks[i].kind = "evaluateAnswer"
           /\ sessionScores' = PushScore(sessionScores, feedback)
           /\ tasks' = [tasks EXCEPT ![i] =
                            Task("pause", tasks[i].lastQuestion, <<feedback>>)]
           /\ sessionLog' =
                  [sessionLog EXCEPT
                      !.feedbacks = Append(sessionLog.feedbacks, feedback),
                      !.turnPushes = sessionLog.turnPushes
                          + Len(PushScore(sessionScores, feedback))
                          - Len(sessionScores)]
    /\ UNCHANGED <<view, messages, isLoading, showNextQuestionButton,
                   isListening, recognition, previousQuestions, profile>>
    /\ UNCHANGED <<parseVars, authVars, camVars, presenceVars, feedbackVars,
                   streakVars>>

\* handleSubmit after the pause: the feedback message, then speak
PauseEnds ==
    /\ view = "session"
    /\ \E i \in 1..Len(tasks) :
           /\ tasks[i].kind = "pause"
           /\ messages' =
                  Append(messages, Message("system", <<>>, tasks[i].feedback))
           /\ tasks' = [tasks EXCEPT ![i].kind = "speak"]
    /\ UNCHANGED <<view, isLoading, showNextQuestionButton, isListening,
                   recognition, sessionScores, previousQuestions, profile,
                   sessionLog>>
    /\ UNCHANGED <<parseVars, authVars, camVars, presenceVars, feedbackVars,
                   streakVars>>

\* handleSubmit after speak has resolved
SpeechEnds ==
    /\ view = "session"
    /\ \E i \in 1..Len(tasks) :
           /\ tasks[i].kind = "speak"
           /\ tasks' = RemoveAt(tasks, i)
    /\ isLoading' = FALSE
    /\ showNextQuestionButton' = TRUE
    /\ UNCHANGED <<view, messages, isListening, recognition, sessionScores,
                   previousQuestions, profile, sessionLog>>
    /\ UNCHANGED <<parseVars, authVars, camVars, presenceVars, feedbackVars,
                   streakVars>>

\* the Next Question button under a feedback card: startNewTurn up to its
\* await
NextQuestion ==
    /\ view = "session"
    /\ showNextQuestionButton
    /\ \E i \in 1..Len(messages) : messages[i].feedback # <<>>
    /\ sessionLog.turns < MaxTurns
    /\ showNextQuestionButton' = FALSE
    /\ isLoading' = TRUE
    /\ tasks' = Append(tasks, Task("generateQuestion", <<>>, <<>>))
    /\ sessionLog' = NewTurnLog(sessionLog)
    /\ UNCHANGED <<view, messages, isListening, recognition, sessionScores,
                   previousQuestions, profile>>
    /\ UNCHANGED <<parseVars, authVars, camVars, presenceVars, feedbackVars,
                   streakVars>>

\* handleEndSessionClick; the subject is a prop of the screen, read here only
EndSession ==
    /\ view = "session"
    /\ \E subject \in Subjects, today \in Days :
           LET averageScore == [num |-> SumScores(sessionScores),
                                den |-> Len(sessionScores)]
           IN  /\ profile.lastSessionDate # <<>> =>
                      today >= profile.lastSessionDate[1]
               /\ IF Len(sessionScores) > 0
                  THEN /\ profile' = updateProfileOnSessionEnd(
                                         profile, subject, averageScore, today)
                       /\ sessionLog' =
                              [sessionLog EXCEPT !.updates =
                                  Append(sessionLog.updates, averageScore)]
                  ELSE UNCHANGED <<profile, sessionLog>>
    /\ view' = "dashboard"
    /\ UNCHANGED <<messages, isLoading, showNextQuestionButton, isListening,
                   recognition, sessionScores, previousQuestions, tasks>>

\* the End Session button
handleEndSessionClick ==
    /\ EndSession
    /\ UNCHANGED <<parseVars, authVars, camVars, presenceVars, feedbackVars,
                   streakVars>>

ScreenNext ==
    \/ SubmitTyped
    \/ toggleListen
    \/ RecognitionResult
    \/ RecognitionEnds
    \/ QuestionArrives
    \/ EvaluationArrives
    \/ PauseEnds
    \/ SpeechEnds
    \/ NextQuestion
    \/ handleEndSessionClick

----------------------------------------------------------------------------
(* WebcamMonitor.  A stream is the number of the grant that produced it.   *)
(* The video element exists while the rendered status is 'active'          *)
(* (renderContent), and every state update is followed by its render.      *)

MaxRequests == 3

CamTask(kind, from) == [kind |-> kind, from |-> from]

\* videoRefInternal.current is not null
VideoMounted == mounted /\ status = "active"

\* the effect body, run with requests calls of getUserMedia made so far
EffectBody(requests) ==
    /\ status' = "waiting"
    /\ IF browser.mediaDevices
       THEN /\ camTasks' = Append(camTasks, CamTask("getUserMedia", "effect"))
            /\ camLog' = [camLog EXCEPT !.requests = requests + 1]
       ELSE UNCHANGED <<camTasks, camLog>>

\* the cleanup of the effect (lines 137-150), the absence timer being timer
Cleanup(timer) ==
    /\ streamRef' = <<>>
    /\ intervalId' = FALSE
    /\ absenceTimer' = [timer EXCEPT !.pending = FALSE]

\* a render of the parent passes new callbacks, detectFace changes, and the
\* effect is cleaned up and run again; the video element goes with the
\* status 'active'
Rerender(timer) ==
    /\ Cleanup(timer)
    /\ srcObject' = <<>>
    /\ EffectBody(camLog.requests)
    /\ UNCHANGED <<mounted, errorMessage, browser>>

\* the mounted monitor after its effect has run
CamInit ==
    /\ mounted = TRUE
    /\ status = "waiting"
    /\ errorMessage = FALSE
    /\ streamRef = <<>>
    /\ srcObject = <<>>
    /\ intervalId = FALSE
    /\ browser \in [faceDetector : BOOLEAN, mediaDevices : BOOLEAN]
    /\ camTasks = IF browser.mediaDevices
                  THEN << CamTask("getUserMedia", "effect") >> ELSE <<>>
    /\ camLog = [requests |-> IF browser.mediaDevices THEN 1 ELSE 0,
                 grants |-> 0, reportedPresent |-> FALSE]

\* no monitor is shown
CamIdle ==
    /\ mounted = FALSE
    /\ status = "initializing"
    /\ errorMessage = FALSE
    /\ streamRef = <<>>
    /\ srcObject = <<>>
    /\ intervalId = FALSE
    /\ browser = [faceDetector |-> FALSE, mediaDevices |-> FALSE]
    /\ camTasks = <<>>
    /\ camLog = [requests |-> 0, grants |-> 0, reportedPresent |-> FALSE]

\* startStream after getUserMedia has resolved (lines 71-99)
StreamGranted(i) ==
    /\ streamRef' = << camLog.grants + 1 >>
    /\ camLog' = [camLog EXCEPT !.grants = camLog.grants + 1]
    /\ IF VideoMounted
       THEN /\ srcObject' = << camLog.grants + 1 >>
            /\ \E ready \in BOOLEAN :
                   camTasks' = [camTasks EXCEPT ![i].kind =
                                   IF ready THEN "play" ELSE "canplay"]
       ELSE /\ camTasks' = RemoveAt(camTasks, i)
            /\ UNCHANGED srcObject
    /\ UNCHANGED <<status, errorMessage, intervalId>>

\* startStream after getUserMedia has rejected (lines 100-105), and the
\* catch of the effect (lines 131-134) when the effect made the call
StreamDenied(i) ==
    /\ errorMessage' = TRUE
    /\ status' = IF camTasks[i].from = "effect" THEN "waiting" ELSE "error"
    /\ camTasks' = RemoveAt(camTasks, i)
    /\ UNCHANGED <<streamRef, srcObject, intervalId, camLog>>

\* .finally of videoEl.play() (lines 78-84)
PlaySettled(i) ==
    /\ status' = "active"
    /\ camTasks' = RemoveAt(camTasks, i)
    /\ IF browser.faceDetector
       THEN intervalId' = TRUE /\ UNCHANGED camLog
       ELSE /\ camLog' = [camLog EXCEPT !.reportedPresent = TRUE]
            /\ UNCHANGED intervalId
    /\ UNCHANGED <<errorMessage, streamRef, srcObject>>

\* the browser runs one of the callbacks it owes the monitor
CamTaskRuns ==
    /\ mounted
    /\ \E i \in 1..Len(camTasks) :
           CASE camTasks[i].kind = "getUserMedia" ->
                    \E granted \in BOOLEAN :
                        IF granted THEN StreamGranted(i) ELSE StreamDenied(i)
             [] camTasks[i].kind = "canplay" ->
                    /\ camTasks' = [camTasks EXCEPT ![i].kind = "play"]
                    /\ UNCHANGED <<status, errorMessage, streamRef,
                                   srcObject, intervalId, camLog>>
             [] camTasks[i].kind = "play" -> PlaySettled(i)
    /\ UNCHANGED <<mounted, browser>>
    /\ UNCHANGED <<parseVars, authVars, screenVars, presenceVars, feedbackVars,
                   streakVars>>

\* the Enable Camera button: startStream up to its await
EnableCamera ==
    /\ mounted
    /\ status = "waiting"
    /\ camLog.requests < MaxRequests
    /\ IF browser.mediaDevices
       THEN /\ errorMessage' = FALSE
            /\ camTasks' = Append(camTasks, CamTask("getUserMedia", "button"))
            /\ camLog' = [camLog EXCEPT !.requests = camLog.requests + 1]
            /\ UNCHANGED status
       ELSE /\ errorMessage' = TRUE
            /\ status' = "error"
            /\ UNCHANGED <<camTasks, camLog>>
    /\ UNCHANGED <<mounted, streamRef, srcObject, intervalId, browser>>
    /\ UNCHANGED <<parseVars, authVars, screenVars, presenceVars, feedbackVars,
                   streakVars>>

\* a render of the parent for a reason of its own
EffectReruns ==
    /\ mounted
    /\ camLog.requests < MaxRequests
    /\ Rerender(absenceTimer)
    /\ UNCHANGED <<face, detections, absentCount, isUserPresent,
                   absentLimitReached, endTimers>>
    /\ UNCHANGED <<parseVars, authVars, screenVars, feedbackVars, streakVars>>

\* the cleanup on unmount
Unmount ==
    /\ mounted
    /\ mounted' = FALSE
    /\ Cleanup(absenceTimer)
    /\ srcObject' = <<>>
    /\ UNCHANGED <<status, errorMessage, camTasks, browser, camLog>>
    /\ UNCHANGED <<face, detections, absentCount, isUserPresent,
                   absentLimitReached, endTimers>>
    /\ UNCHANGED <<parseVars, authVars, screenVars, feedbackVars, streakVars>>

CamNext == CamTaskRuns \/ EnableCamera \/ EffectReruns \/ Unmount

----------------------------------------------------------------------------
(* Presence detection: detectFace of WebcamMonitor and the two callbacks   *)
(* of InterviewSessionScreen.  The absence timer is the ref (set: it holds *)
(* a timer id) and whether that timer is still to fire.  A callback that   *)
(* changes the state of the screen makes the screen render, and the        *)
(* monitor's effect run again.                                             *)

AbsentLimit == 10

MaxDetections == 2

NoTimer == [set |-> FALSE, pending |-> FALSE]

\* the monitor after the callback: timer is the absence timer it leaves
AfterCallback(rendered, timer) ==
    IF rendered /\ mounted
    THEN Rerender(timer)
    ELSE /\ absenceTimer' = timer
         /\ UNCHANGED camVars

handleUserPresent(timer) ==
    /\ absentCount' = 0
    /\ isUserPresent' = TRUE
    /\ UNCHANGED <<absentLimitReached, endTimers>>
    /\ AfterCallback(~isUserPresent, timer)

handleUserNotPresent(timer) ==
    /\ absentCount' = absentCount + 1
    /\ isUserPresent' = FALSE
    /\ IF absentCount + 1 >= AbsentLimit
       THEN /\ absentLimitReached' = TRUE
            /\ endTimers' = endTimers + 1
       ELSE UNCHANGED <<absentLimitReached, endTimers>>
    /\ AfterCallback(isUserPresent \/ (absentCount + 1 >= AbsentLimit
                                          /\ ~absentLimitReached), timer)

\* face detection is running: the monitor is active on a granted stream
CamDetecting ==
    /\ mounted = TRUE
    /\ status = "active"
    /\ errorMessage = FALSE
    /\ streamRef = <<1>>
    /\ srcObject = <<1>>
    /\ intervalId = TRUE
    /\ browser = [faceDetector |-> TRUE, mediaDevices |-> TRUE]
    /\ camTasks = <<>>
    /\ camLog = [requests |-> 1, grants |-> 1, reportedPresent |-> FALSE]

PresenceInit ==
    /\ face \in BOOLEAN
    /\ detections = <<>>
    /\ absenceTimer = NoTimer
    /\ absentCount = 0
    /\ isUserPresent = TRUE
    /\ absentLimitReached = FALSE
    /\ endTimers = 0

\* no detection has run
PresenceIdle ==
    /\ face = TRUE
    /\ detections = <<>>
    /\ absenceTimer = NoTimer
    /\ absentCount = 0
    /\ isUserPresent = TRUE
    /\ absentLimitReached = FALSE
    /\ endTimers = 0

\* the user moves into or out of the view of the camera
FaceChanges ==
    /\ mounted
    /\ face' = ~face
    /\ UNCHANGED <<detections, absenceTimer, absentCount, isUserPresent,
                   absentLimitReached, endTimers>>
    /\ UNCHANGED <<parseVars, authVars, screenVars, camVars, feedbackVars,
                   streakVars>>

\* a tick of the interval: detectFace up to its await
DetectFace ==
    /\ mounted /\ intervalId
    /\ VideoMounted /\ browser.faceDetector
    /\ Len(detections) < MaxDetections
    /\ \E result \in {IF face THEN "faces" ELSE "none", "throws"} :
           detections' = Append(detections, result)
    /\ UNCHANGED <<face, absenceTimer, absentCount, isUserPresent,
                   absentLimitReached, endTimers>>
    /\ UNCHANGED <<parseVars, authVars, screenVars, camVars, feedbackVars,
                   streakVars>>

\* detectFace after detect() has settled
DetectionSettles ==
    /\ mounted
    /\ \E i \in 1..Len(detections) :
           /\ detections' = RemoveAt(detections, i)
           /\ CASE detections[i] = "faces" -> handleUserPresent(NoTimer)
                [] detections[i] = "throws" -> handleUserPresent(absenceTimer)
                [] detections[i] = "none" ->
                       /\ absenceTimer' =
                              IF absenceTimer.set THEN absenceTimer
                              ELSE [set |-> TRUE, pending |-> TRUE]
                       /\ UNCHANGED <<absentCount, isUserPresent,
                                      absentLimitReached, endTimers>>
                       /\ UNCHANGED camVars
    /\ UNCHANGED face
    /\ UNCHANGED <<parseVars, authVars, screenVars, feedbackVars, streakVars>>

PendingTimers ==
    (IF absenceTimer.pending THEN {"absence"} ELSE {})
        \cup (IF endTimers > 0 THEN {"end"} ELSE {})

\* a timeout fires: the absence timer calls onUserNotPresent and leaves
\* the ref as it is; the timer of handleUserNotPresent ends the session,
\* which unmounts the screen and the monitor
TimeoutFires ==
    /\ \E timer \in PendingTimers :
           IF timer = "absence"
           THEN /\ handleUserNotPresent(
                       [absenceTimer EXCEPT !.pending = FALSE])
                /\ UNCHANGED screenVars
           ELSE /\ EndSession
                /\ endTimers' = endTimers - 1
                /\ mounted' = FALSE
                /\ Cleanup(absenceTimer)
                /\ srcObject' = <<>>
                /\ UNCHANGED <<status, errorMessage, camTasks, browser,
                               camLog>>
                /\ UNCHANGED <<absentCount, isUserPresent,
                               absentLimitReached>>
    /\ UNCHANGED <<face, detections>>
    /\ UNCHANGED <<parseVars, authVars, feedbackVars, streakVars>>

PresenceNext ==
    \/ FaceChanges
    \/ DetectFace
    \/ DetectionSettles
    \/ TimeoutFires
    \/ CamNext

----------------------------------------------------------------------------
(* feedbackService.  A key is the pair of its prefix and the user id; an   *)
(* entry is empty when absent and holds its parsed value when present      *)
(* (JSON.stringify and JSON.parse give these values back unchanged).  A    *)
(* setItem either writes or throws; written tells which.  An average is    *)
(* an exact fraction.                                                      *)

MaxHistory == 100

MaxFeedbackCalls == 3

\* user ids; the empty one is no user
FeedbackUsers == {"u1", "u2", ""}

Difficulties == {"Advanced"}

getFeedbackKey(userId) == <<"makePrepWithMe_feedbacks_", userId>>

TempKey(userId) == <<"makePrepWithMe_temp_session_", userId>>

FeedbackKeys ==
    { getFeedbackKey(u) : u \in FeedbackUsers }
        \cup { TempKey(u) : u \in FeedbackUsers }

\* what addFeedback is given
FeedbackItems ==
    { [question |-> "q", answer |-> "a", feedback |-> f] :
          f \in { g \in Feedbacks : ~g.error } }

\* the arrays saveFeedback is given directly
FeedbackLists ==
    { <<>>,
      << [question |-> "q", answer |-> "a",
          feedback |-> [error |-> FALSE, score |-> 10]] >> }

\* feedbacks.reduce((sum, f) => sum + f.feedback.score, 0)
RECURSIVE SumItemScores(_)
SumItemScores(items) ==
    IF items = <<>> THEN 0
    ELSE Head(items).feedback.score + SumItemScores(Tail(items))

\* lines 55-57
AverageScore(items) ==
    IF Len(items) > 0
    THEN [num |-> SumItemScores(items), den |-> Len(items)]
    ELSE [num |-> 0, den |-> 1]

\* lines 59-66, at time t
SessionFeedback(userId, subject, difficulty, t, items) ==
    [sessionId |-> <<"session_", userId, t>>, subject |-> subject,
     difficulty |-> difficulty, timestamp |-> t, feedbacks |-> items,
     averageScore |-> AverageScore(items)]

getUserFeedbacks(store, userId) ==
    IF store[getFeedbackKey(userId)] = <<>> THEN <<>>
    ELSE store[getFeedbackKey(userId)][1]

\* the oldest sessions are kept and the new one is dropped
KeepFirst(all) ==
    IF Len(all) > MaxHistory THEN SubSeq(all, 1, MaxHistory) ELSE all

\* lines 71-73: splice(0, length - 100)
KeepLast(all) ==
    IF Len(all) > MaxHistory
    THEN SubSeq(all, Len(all) - MaxHistory + 1, Len(all))
    ELSE all

\* the store saveFeedback leaves and what it returns
saveFeedback(store, userId, subject, difficulty, items, t, written) ==
    IF userId = "" \/ ~written
    THEN [store |-> store, success |-> FALSE]
    ELSE [store |->
              [store EXCEPT ![getFeedbackKey(userId)] =
                  << KeepLast(Append(getUserFeedbacks(store, userId),
                                     SessionFeedback(userId, subject,
                                                     difficulty, t, items))) >>],
          success |-> TRUE]

\* the temporary session of a user: [] when the entry is absent
TempSession(store, userId) ==
    IF store[TempKey(userId)] = <<>> THEN <<>> ELSE store[TempKey(userId)][1]

\* the new item is put in front of the buffered ones
addFeedbackInFront(store, userId, item, written) ==
    IF userId = "" \/ ~written THEN store
    ELSE [store EXCEPT ![TempKey(userId)] =
             << <<item>> \o TempSession(store, userId) >>]

\* the store addFeedback leaves
addFeedback(store, userId, item, written) ==
    IF userId = "" \/ ~written THEN store
    ELSE [store EXCEPT ![TempKey(userId)] =
             << Append(TempSession(store, userId), item) >>]

\* the store endSessionAndSaveFeedbacks leaves and what it returns
endSessionAndSaveFeedbacks(store, userId, subject, difficulty, t, written) ==
    IF userId = "" THEN [store |-> store, success |-> FALSE]
    ELSE IF store[TempKey(userId)] = <<>>
    THEN [store |-> store, success |-> TRUE]
    ELSE saveFeedback([store EXCEPT ![TempKey(userId)] = <<>>], userId,
                      subject, difficulty, store[TempKey(userId)][1], t,
                      written)

\* the stored history of a user who has saved n sessions before
EarlierSessions(userId, n) ==
    [k \in 1..n |-> SessionFeedback(userId, "Python", "Advanced", k, <<>>)]

FeedbackCall(op, userId, success) ==
    [op |-> op, user |-> userId, success |-> success]

\* the first user has an empty history, or one at or just under the limit
FeedbackInit ==
    /\ \E n \in {0, MaxHistory - 1, MaxHistory} :
           /\ feedbackStore =
                  [k \in FeedbackKeys |->
                      IF k = getFeedbackKey("u1") /\ n > 0
                      THEN << EarlierSessions("u1", n) >> ELSE <<>>]
           /\ fbLog = [calls |-> 0,
                       saved |-> [u \in FeedbackUsers |->
                                     IF u = "u1" THEN EarlierSessions(u, n)
                                     ELSE <<>>],
                       added |-> [u \in FeedbackUsers |-> <<>>],
                       failed |-> [u \in FeedbackUsers |-> FALSE]]
    /\ fbClock = MaxHistory + 1
    /\ fbResult = FeedbackCall("none", "", FALSE)

\* the service has not been used
FeedbackIdle ==
    /\ feedbackStore = [k \in FeedbackKeys |-> <<>>]
    /\ fbLog = [calls |-> 0, saved |-> [u \in FeedbackUsers |-> <<>>],
                added |-> [u \in FeedbackUsers |-> <<>>],
                failed |-> [u \in FeedbackUsers |-> FALSE]]
    /\ fbClock = 0
    /\ fbResult = FeedbackCall("none", "", FALSE)

\* the log after a call that saves items for userId with the given result
LogSave(userId, record, success) ==
    [fbLog EXCEPT
        !.calls = fbLog.calls + 1,
        !.saved[userId] = IF success THEN Append(fbLog.saved[userId], record)
                          ELSE fbLog.saved[userId]]

SaveFeedback ==
    /\ fbLog.calls < MaxFeedbackCalls
    /\ \E userId \in FeedbackUsers, subject \in Subjects,
          difficulty \in Difficulties, items \in FeedbackLists,
          written \in BOOLEAN :
           /\ feedbackStore' =
                  saveFeedback(feedbackStore, userId, subject, difficulty,
                               items, fbClock, written).store
           /\ fbResult' =
                  FeedbackCall("saveFeedback", userId,
                               saveFeedback(feedbackStore, userId, subject,
                                            difficulty, items, fbClock,
                                            written).success)
           /\ fbLog' = LogSave(userId,
                               SessionFeedback(userId, subject, difficulty,
                                               fbClock, items),
                               userId # "" /\ written)
    /\ fbClock' = fbClock + 1
    /\ UNCHANGED <<parseVars, authVars, screenVars, camVars, presenceVars,
                   streakVars>>

AddFeedback ==
    /\ fbLog.calls < MaxFeedbackCalls
    /\ \E userId \in FeedbackUsers, item \in FeedbackItems,
          written \in BOOLEAN :
           /\ feedbackStore' = addFeedback(feedbackStore, userId, item, written)
           /\ fbResult' = FeedbackCall("addFeedback", userId, TRUE)
           /\ fbLog' =
                  [fbLog EXCEPT
                      !.calls = fbLog.calls + 1,
                      !.added[userId] = Append(fbLog.added[userId], item),
                      !.failed[userId] = fbLog.failed[userId] \/ ~written]
    /\ UNCHANGED fbClock
    /\ UNCHANGED <<parseVars, authVars, screenVars, camVars, presenceVars,
                   streakVars>>

EndSessionAndSaveFeedbacks ==
    /\ fbLog.calls < MaxFeedbackCalls
    /\ \E userId \in FeedbackUsers, subject \in Subjects,
          difficulty \in Difficulties, written \in BOOLEAN :
           /\ feedbackStore' =
                  endSessionAndSaveFeedbacks(feedbackStore, userId, subject,
                                             difficulty, fbClock, written).store
           /\ fbResult' =
                  FeedbackCall("endSessionAndSaveFeedbacks", userId,
                               endSessionAndSaveFeedbacks(
                                   feedbackStore, userId, subject, difficulty,
                                   fbClock, written).success)
           /\ fbLog' =
                  [LogSave(userId,
                           SessionFeedback(userId, subject, difficulty,
                                           fbClock,
                                           TempSession(feedbackStore, userId)),
                           userId # "" /\ written
                               /\ feedbackStore[TempKey(userId)] # <<>>)
                      EXCEPT !.added[userId] = <<>>,
                             !.failed[userId] = FALSE]
    /\ fbClock' = fbClock + 1
    /\ UNCHANGED <<parseVars, authVars, screenVars, camVars, presenceVars,
                   streakVars>>

FeedbackNext == SaveFeedback \/ AddFeedback \/ EndSessionAndSaveFeedbacks

----------------------------------------------------------------------------
(* profileService on its own: sessions end on days of the local calendar,  *)
(* which the system clock may also set back.  The profile entry is written *)
(* and read back unchanged.                                                *)

MaxSessions == 4

MaxDay == 3

\* the scores of whole sessions
SessionScores == { [num |-> 7, den |-> 1], [num |-> 10, den |-> 1] }

\* nothing stored yet
StreakInit ==
    /\ clockDay \in 0..MaxDay
    /\ maxStreak = 0

\* midnight passes, or the clock is set
DayChanges ==
    /\ \E d \in 0..MaxDay : d # clockDay /\ clockDay' = d
    /\ UNCHANGED maxStreak
    /\ UNCHANGED <<parseVars, authVars, screenVars, camVars, presenceVars,
                   feedbackVars>>

\* one call of updateProfileOnSessionEnd
SessionEnds ==
    /\ profile.interviewsCompleted < MaxSessions
    /\ \E subject \in Subjects, score \in SessionScores :
           profile' = updateProfileOnSessionEnd(profile, subject, score,
                                                clockDay)
    /\ maxStreak' = IF profile'.currentStreak > maxStreak
                    THEN profile'.currentStreak ELSE maxStreak
    /\ UNCHANGED clockDay
    /\ UNCHANGED <<view, messages, isLoading, showNextQuestionButton,
                   isListening, recognition, sessionScores,
                   previousQuestions, tasks, sessionLog>>
    /\ UNCHANGED <<parseVars, authVars, camVars, presenceVars, feedbackVars>>

StreakNext == DayChanges \/ SessionEnds

----------------------------------------------------------------------------
(* The state machine: a raw model text, and one run of each copy on it.    *)

NotRun == [kind |-> "idle", value |-> <<>>, path |-> "",
           lines |-> <<>>, selected |-> <<>>, normalized |-> <<>>]

\* a response without text carries no raw text
ParseInit ==
    /\ response \in Responses
    /\ raw \in IF response = "text"
               THEN Inputs(MaxPieces, MaxJsonPieces) ELSE {<<>>}
    /\ pmq = NotRun
    /\ gq = NotRun

\* no model text is being parsed
ParseIdle ==
    /\ raw = <<>>
    /\ response = "text"
    /\ pmq = NotRun
    /\ gq = NotRun

\* the profile service has not been used on its own
StreakIdle == clockDay = 0 /\ maxStreak = 0

Init ==
    /\ ParseInit /\ AuthInit /\ ScreenIdle /\ CamIdle
    /\ PresenceIdle /\ FeedbackIdle /\ StreakIdle

RunParseModelQuestion ==
    /\ pmq.kind = "idle"
    /\ pmq' = parseModelQuestion(raw)
    /\ UNCHANGED <<raw, response, gq>>
    /\ UNCHANGED <<authVars, screenVars, camVars, presenceVars, feedbackVars,
                   streakVars>>

RunGenerateQuestion ==
    /\ gq.kind = "idle"
    /\ gq' = generateQuestion(response, raw)
    /\ UNCHANGED <<raw, response, pmq>>
    /\ UNCHANGED <<authVars, screenVars, camVars, presenceVars, feedbackVars,
                   streakVars>>

Next == RunParseModelQuestion \/ RunGenerateQuestion

Spec == Init /\ [][Next]_vars

\* the calls of authService, from empty storage
AuthModelInit ==
    /\ ParseIdle /\ AuthInit /\ ScreenIdle /\ CamIdle
    /\ PresenceIdle /\ FeedbackIdle /\ StreakIdle

AuthSpec == AuthModelInit /\ [][AuthNext]_vars

\* one interview session, from the mounted screen to the End Session button
ScreenModelInit ==
    /\ ParseIdle /\ AuthInit /\ ScreenInit /\ CamIdle
    /\ PresenceIdle /\ FeedbackIdle /\ StreakIdle

ScreenSpec == ScreenModelInit /\ [][ScreenNext]_vars

\* the life of one WebcamMonitor; the browser runs every callback it owes
CamModelInit ==
    /\ ParseIdle /\ AuthInit /\ ScreenIdle /\ CamInit
    /\ PresenceIdle /\ FeedbackIdle /\ StreakIdle

CamSpec == CamModelInit /\ [][CamNext]_vars /\ WF_vars(CamTaskRuns)

\* the session screen with face detection running; the interval ticks,
\* detect() settles and the timeouts fire
PresenceModelInit ==
    /\ ParseIdle /\ AuthInit /\ ScreenInit /\ CamDetecting
    /\ PresenceInit /\ FeedbackIdle /\ StreakIdle

PresenceSpec ==
    /\ PresenceModelInit
    /\ [][PresenceNext]_vars
    /\ WF_vars(DetectFace) /\ WF_vars(DetectionSettles)
    /\ WF_vars(TimeoutFires) /\ WF_vars(CamTaskRuns)

\* the calls of feedbackService, every setItem writing or throwing
FeedbackModelInit ==
    /\ ParseIdle /\ AuthInit /\ ScreenIdle /\ CamIdle
    /\ PresenceIdle /\ FeedbackInit /\ StreakIdle

FeedbackSpec == FeedbackModelInit /\ [][FeedbackNext]_vars

\* the sessions of one browser, from the default profile
StreakModelInit ==
    /\ ParseIdle /\ AuthInit /\ ScreenIdle /\ CamIdle
    /\ PresenceIdle /\ FeedbackIdle /\ StreakInit

StreakSpec == StreakModelInit /\ [][StreakNext]_vars

----------------------------------------------------------------------------
(* Properties of the extraction.                                           *)

\* non-empty, trimmed, ending in '?' and holding no other '?'
WellFormedQuestion(s) ==
    /\ s # <<>>
    /\ Trim(s) = s
    /\ s[Len(s)] = "?"
    /\ \A i \in 1..(Len(s) - 1) : s[i] # "?"

\* C1: parseModelQuestion returns null or a string that is non-empty,
\* trimmed, ends with '?' and contains no other '?', on the JSON path as on
\* the heuristic path.
C1_ResultWellFormed ==
    \/ pmq.kind \in {"idle", "null"}
    \/ pmq.kind = "string" /\ WellFormedQuestion(pmq.value)

\* the first k characters of raw are a JSON object whose `question` is a
\* string with non-empty trimmed content
JsonObjectPrefix(k) ==
    /\ raw[1] = "{"
    /\ JsonParse(SubSeq(raw, 1, k)).kind = "value"
    /\ JsonParse(SubSeq(raw, 1, k)).question.kind = "string"
    /\ Trim(JsonParse(SubSeq(raw, 1, k)).question.value) # <<>>

ReturnsQuestionField(k) ==
    /\ pmq.kind = "string"
    /\ pmq.path = "json"
    /\ pmq.value = Trim(JsonParse(SubSeq(raw, 1, k)).question.value)

\* C2 as stated: when the raw text is such a JSON object followed by any
\* trailing prose, parseModelQuestion returns exactly the field's trimmed
\* content, untouched by the heuristic steps.
C2_AnyTrailingProse ==
    pmq.kind # "idle" =>
        \A k \in 1..Len(raw) : JsonObjectPrefix(k) => ReturnsQuestionField(k)

\* C2 amended: the same, for trailing prose that contains no '}'.
C2_ProseWithoutBrace ==
    pmq.kind # "idle" =>
        \A k \in 1..Len(raw) :
            JsonObjectPrefix(k) /\ ~Includes(Drop(raw, k), "}")
                => ReturnsQuestionField(k)

\* a JSON object followed by prose, returned without a '?' appended
C2_Witness ==
    /\ pmq.kind = "string"
    /\ \E k \in 1..Len(raw) :
           /\ JsonObjectPrefix(k)
           /\ Trim(Drop(raw, k)) # <<>>
           /\ ~Includes(Drop(raw, k), "}")
           /\ ReturnsQuestionField(k)
    /\ ~WellFormedQuestion(pmq.value)

\* C3: on the heuristic path, when the normalized line contains '?', the
\* result is that line's text up to its first '?' (blanks before the '?'
\* aside) followed by '?': everything after the first '?' is discarded.
C3_CutAtFirstQuestionMark ==
    (/\ pmq.path = "heuristic"
     /\ pmq.kind = "string"
     /\ Includes(pmq.normalized, "?"))
        => pmq.value = Trim(BeforeFirst(pmq.normalized, "?")) \o <<"?">>

\* C4: null for empty input, for whitespace-only input and for input whose
\* only non-whitespace content is '?'; no result consists solely of '?'.
C4_DegenerateIsNull ==
    pmq.kind # "idle" =>
        /\ (\A i \in 1..Len(raw) : raw[i] \in Whitespace \cup {"?"})
               => pmq.kind = "null"
        /\ pmq.kind = "string" /\ pmq.path = "heuristic"
               => \E i \in 1..Len(pmq.value) : pmq.value[i] # "?"

\* C5: for every string input parseModelQuestion returns a string or null
\* and never raises.
C5_NeverRaises == pmq.kind \in {"idle", "string", "null"}

\* JSON.parse threw on the brace-delimited text and the call still returned
C5_Witness ==
    /\ pmq.kind \in {"string", "null"}
    /\ BraceMatch(Trim(raw)) # <<>>
    /\ JsonParse(BraceMatch(Trim(raw))).kind = "throw"

SelectsByPriority(r) ==
    r.path = "heuristic" =>
        \A i \in 1..Len(r.lines) :
            /\ r.lines[i] # <<>>
            /\ (/\ Includes(r.lines[i], "?")
                /\ \A k \in 1..(i - 1) : ~Includes(r.lines[k], "?"))
                   => r.selected = r.lines[i]
            /\ (/\ \A k \in 1..Len(r.lines) : ~Includes(r.lines[k], "?")
                /\ HasQuestionWord(r.lines[i])
                /\ \A k \in 1..(i - 1) : ~HasQuestionWord(r.lines[k]))
                   => r.selected = r.lines[i]

\* C6: on the heuristic path the selected line is the first line that
\* contains '?' whenever a line contains one, even after a line with a
\* question word; only without any '?' is it the first line containing a
\* question word as a whole word, in any letter case.
C6_QuestionMarkBeforeQuestionWord ==
    SelectsByPriority(pmq) /\ SelectsByPriority(gq)

\* a line with '?' selected over an earlier line with a question word
C6_Witness ==
    /\ pmq.path = "heuristic"
    /\ Len(pmq.lines) >= 2
    /\ HasQuestionWord(pmq.lines[1])
    /\ ~Includes(pmq.lines[1], "?")
    /\ Includes(pmq.lines[2], "?")
    /\ pmq.selected = pmq.lines[2]
    /\ pmq.kind = "string"

\* what follows the label of line l and its run of colons, dashes and spaces
LabelBody(l) ==
    Drop(l, SkipSet(l, LabelLength(l) + 1, {":", "-", " "}) - 1)

\* C7: for a selected line <label><separator><body>, the label Question, Q
\* or Ask in any letter case and the separator any run of colons, dashes
\* and spaces, the result is built from <body> alone.
C7_LabelAndSeparatorRemoved ==
    (/\ pmq.path = "heuristic"
     /\ LabelLength(pmq.selected) > 0
     /\ LabelBody(pmq.selected) # <<>>)
        => pmq.normalized = Trim(LabelBody(pmq.selected))

\* s starts with <digits>'.' or <digits>')'
NumberPrefixed(s) ==
    LET d == SkipSet(s, 1, Digits)
    IN  d > 1 /\ d <= Len(s) /\ s[d] \in {".", ")"}

\* s starts with 'Question <digits>' followed by ':' or '-'
QuestionNumberPrefixed(s) ==
    LET d == SkipSet(s, Len(QuestionLabel) + 2, Digits)
    IN  /\ StartsWith(s, QuestionLabel \o <<" ">>)
        /\ d > Len(QuestionLabel) + 2
        /\ d <= Len(s)
        /\ s[d] \in {":", "-"}

\* an enumeration prefix, alone or after a label
EnumerationPrefixed(s) ==
    \/ NumberPrefixed(s)
    \/ QuestionNumberPrefixed(s)
    \/ /\ LabelLength(s) > 0
       /\ NumberPrefixed(LabelBody(s)) \/ QuestionNumberPrefixed(LabelBody(s))

\* C8: for input whose text or selected line starts with an enumeration
\* prefix, alone or combined with a label in either order, the result has
\* no leading digit, period or parenthesis and ends in exactly one '?'.
C8_NoResidualPrefix ==
    (/\ pmq.kind = "string"
     /\ \/ EnumerationPrefixed(Trim(raw))
        \/ pmq.path = "heuristic" /\ EnumerationPrefixed(pmq.selected))
        => /\ pmq.value[1] \notin Digits \cup {".", ")"}
           /\ pmq.value[Len(pmq.value)] = "?"
           /\ \A i \in 1..(Len(pmq.value) - 1) : pmq.value[i] # "?"

\* the word characters s starts with
FirstWord(s) == SubSeq(s, 1, SkipSet(s, 1, WordChars) - 1)

\* an already-clean question: one trimmed line without braces, enumeration
\* prefix or label, whose only '?' is its last character, after a non-blank
CleanQuestion(s) ==
    /\ Len(s) >= 2
    /\ Trim(s) = s
    /\ \A i \in 1..Len(s) : s[i] \notin {"\n", "\r", "{", "}"}
    /\ ~NumberPrefixed(s)
    /\ LowerStr(FirstWord(s)) \notin
           {LowerStr(QuestionLabel), <<"q">>, LowerStr(AskLabel)}
    /\ s[Len(s)] = "?"
    /\ \A i \in 1..(Len(s) - 1) : s[i] # "?"
    /\ s[Len(s) - 1] \notin Whitespace

\* C9: parseModelQuestion returns an already-clean question unchanged.
C9_CleanIsIdentity ==
    (pmq.kind # "idle" /\ CleanQuestion(raw))
        => pmq.kind = "string" /\ pmq.value = raw

\* C10: for every raw model text the parsing inside generateQuestion yields
\* the question parseModelQuestion yields, and the retry message exactly
\* when parseModelQuestion returns null.
C10_CopiesAgree ==
    (pmq.kind # "idle" /\ gq.kind # "idle")
        => /\ pmq.kind = "string" => gq.value = pmq.value
           /\ pmq.kind = "null" <=> gq.value = RetryMessage

\* the brace-delimited substring of the trimmed raw text does not parse, or
\* parses without a non-empty string question field
UnusableJson ==
    /\ BraceMatch(Trim(raw)) # <<>>
    /\ \/ JsonParse(BraceMatch(Trim(raw))).kind = "throw"
       \/ JsonParse(BraceMatch(Trim(raw))).question.kind # "string"
       \/ JsonParse(BraceMatch(Trim(raw))).question.value = <<>>

\* C13: when the brace-delimited substring does not parse as JSON, or
\* parses but has no non-empty string question field, parseModelQuestion
\* surfaces no error and returns exactly what the heuristic path yields for
\* the same trimmed raw text.
C13_UnusableJsonFallsThrough ==
    (pmq.kind # "idle" /\ UnusableJson)
        => /\ pmq.kind \in {"string", "null"}
           /\ pmq = Heuristic(Trim(raw))

\* a JSON object without a question field, and the heuristic's question
C13_Witness ==
    /\ UnusableJson
    /\ JsonParse(BraceMatch(Trim(raw))).kind = "value"
    /\ pmq.kind = "string"
    /\ pmq.path = "heuristic"

\* no candidate line of run r holds '?' or a question word
NoMarkNoWord(r) ==
    /\ r.path = "heuristic"
    /\ \A i \in 1..Len(r.lines) :
           ~Includes(r.lines[i], "?") /\ ~HasQuestionWord(r.lines[i])

\* the third selection rule: the first line longer than 5 characters once
\* its number prefix is removed (taken without the prefix), else the first
\* line as it stands, else the empty string
SelectsByLength(r) ==
    /\ \A i \in 1..Len(r.lines) :
           (/\ Len(StripNumberDot(r.lines[i])) > 5
            /\ \A k \in 1..(i - 1) : Len(StripNumberDot(r.lines[k])) <= 5)
               => r.selected = StripNumberDot(r.lines[i])
    /\ (/\ r.lines # <<>>
        /\ \A i \in 1..Len(r.lines) : Len(StripNumberDot(r.lines[i])) <= 5)
           => r.selected = r.lines[1]
    /\ r.lines = <<>> => r.selected = <<>> /\ r.kind = "null"

\* s is t with exactly one '?' appended
OneMarkAppended(s, t) ==
    /\ s = t \o <<"?">>
    /\ ~Includes(t, "?")

\* C14 as stated: without '?' and question word the third rule selects, a
\* non-empty selection is returned with exactly one '?' appended, and an
\* empty line sequence yields the absent result.
C14_SelectionReturned ==
    NoMarkNoWord(pmq) =>
        /\ SelectsByLength(pmq)
        /\ pmq.selected # <<>> =>
               /\ pmq.kind = "string"
               /\ \E k \in 0..Len(pmq.selected) :
                      OneMarkAppended(pmq.value, Trim(Drop(pmq.selected, k)))

\* C14, amended: without '?' and question word the third rule selects; the
\* selection loses its number prefix and label, and what is left is returned
\* with exactly one '?' appended when it is non-empty, while a selection
\* that this empties, like an empty line sequence, yields the absent result.
C14_NormalizedSelectionReturned ==
    NoMarkNoWord(pmq) =>
        /\ SelectsByLength(pmq)
        /\ \E k \in 0..Len(pmq.selected) :
               pmq.normalized = Trim(Drop(pmq.selected, k))
        /\ pmq.normalized # <<>> =>
               /\ pmq.kind = "string"
               /\ OneMarkAppended(pmq.value, pmq.normalized)
        /\ pmq.normalized = <<>> => pmq.kind = "null"

\* the third rule chose a line for its length, taken without its prefix
C14_Witness ==
    /\ NoMarkNoWord(pmq)
    /\ Len(pmq.selected) > 5
    /\ pmq.selected # pmq.lines[1]
    /\ pmq.kind = "string"

----------------------------------------------------------------------------
(* Properties of generateQuestion.                                         *)

\* the heuristic ran on the response and its question was empty or a lone '?'
NothingUsable ==
    /\ gq.path = "heuristic"
    /\ Rejected(WithQuestionMark(gq.normalized))

\* C12: generateQuestion never rejects and never resolves to an empty
\* string; when the model call throws, returns no text, or nothing usable
\* can be extracted, it resolves to the fixed retry message.
C12_ResolvesNonEmpty ==
    gq.kind # "idle" =>
        /\ gq.kind = "string"
        /\ gq.value # <<>>
        /\ (response # "text" \/ Trim(raw) = <<>> \/ NothingUsable)
               => gq.value = RetryMessage

\* the model call rejected and generateQuestion resolved all the same
C12_Witness ==
    /\ response = "rejects"
    /\ gq.kind = "string"
    /\ gq.path = "catch"
    /\ gq.value = RetryMessage

\* C15: every string generateQuestion resolves to, other than the retry
\* message, ends with '?' and contains no other '?', whether it came from
\* the schema-constrained JSON path, the embedded-JSON path or the line
\* heuristic.
C15_GeneratedSingleQuestion ==
    (gq.kind = "string" /\ gq.value # RetryMessage)
        => /\ gq.path \in {"schema", "json", "heuristic"}
           /\ EndsWith(gq.value, "?")
           /\ \A i \in 1..(Len(gq.value) - 1) : gq.value[i] # "?"

----------------------------------------------------------------------------
(* Properties of authService.                                              *)

\* C17: after any sequence of registerUser calls no two stored users have
\* the same email and no two have the same username, compared
\* case-insensitively on the values as stored.
C17_UsersAreUnique ==
    \A i, j \in 1..Len(users) :
        i # j => /\ LowerStr(users[i].email) # LowerStr(users[j].email)
                 /\ LowerStr(users[i].username) # LowerStr(users[j].username)

\* the step was a registerUser or loginUser call with the given outcome
AuthOutcome(success) ==
    /\ authResult'.op \in {"registerUser", "loginUser"}
    /\ authResult'.success = success

----------------------------------------------------------------------------
(* Properties of InterviewSessionScreen.                                   *)

\* C11: when question generation or extraction fails the screen only shows
\* a retry message: the failure text is never appended to the list of
\* previously asked questions and is never the question against which a
\* submitted answer is evaluated.
C11_RetryMessageIsNoQuestion ==
    /\ \A i \in 1..Len(previousQuestions) :
           previousQuestions[i] # RetryMessage
    /\ \A i \in 1..Len(tasks) :
           tasks[i].kind = "evaluateAnswer"
               => tasks[i].lastQuestion # RetryMessage

\* C16: between two consecutive startNewTurn calls evaluateAnswer is called
\* at most once and at most one score is pushed to sessionScores, however
\* typed submissions interleave with the final results of a recognition
\* object created before a re-render.
C16_EvaluatedOncePerTurn ==
    /\ sessionLog.turnEvaluations <= 1
    /\ sessionLog.turnPushes <= 1

\* the scores of the evaluations that did not fail, in order
RECURSIVE GoodScores(_)
GoodScores(feedbacks) ==
    IF feedbacks = <<>> THEN <<>>
    ELSE IF Head(feedbacks).error THEN GoodScores(Tail(feedbacks))
    ELSE <<Head(feedbacks).score>> \o GoodScores(Tail(feedbacks))

\* fraction f is the arithmetic mean of the numbers of scores
IsMean(f, scores) ==
    /\ scores # <<>>
    /\ f.den > 0
    /\ f.num * Len(scores) = SumScores(scores) * f.den

\* fraction f is the average of count sessions of average old and one
\* session of score mean
IsNewAverage(f, old, count, mean) ==
    /\ f.den > 0
    /\ f.num * (old.den * mean.den * (count + 1))
           = (old.num * count * mean.den + mean.num * old.den) * f.den

\* C19: ending a session updates the stored profile at most once, with the
\* arithmetic mean of the scores of the answers whose evaluation did not
\* fail; a failed evaluation contributes no score, and ending a session
\* without a successfully evaluated answer leaves the profile unchanged.
C19_ProfileUpdatedOnceWithMean ==
    /\ Len(sessionLog.updates) <= 1
    /\ sessionScores = GoodScores(sessionLog.feedbacks)
    /\ view = "session" => profile = sessionLog.startProfile
    /\ (view = "dashboard" /\ sessionScores = <<>>)
           => profile = sessionLog.startProfile /\ sessionLog.updates = <<>>
    /\ (view = "dashboard" /\ sessionScores # <<>>)
           => /\ Len(sessionLog.updates) = 1
              /\ IsMean(sessionLog.updates[1],
                        GoodScores(sessionLog.feedbacks))
              /\ profile.interviewsCompleted
                     = sessionLog.startProfile.interviewsCompleted + 1
              /\ IsNewAverage(profile.averageScore,
                              sessionLog.startProfile.averageScore,
                              sessionLog.startProfile.interviewsCompleted,
                              sessionLog.updates[1])

\* a session ended after one failed and one successful evaluation
C19_Witness ==
    /\ view = "dashboard"
    /\ Len(sessionLog.feedbacks) = 2
    /\ sessionLog.feedbacks[1].error
    /\ sessionScores = <<10>>
    /\ sessionLog.updates = <<[num |-> 10, den |-> 1]>>
    /\ profile # sessionLog.startProfile

----------------------------------------------------------------------------
(* Properties of WebcamMonitor.                                            *)

\* C20: after getUserMedia has resolved the monitor eventually reaches
\* status 'active', with the stream attached to the video element and
\* either the periodic face check started or, without a FaceDetector, the
\* user reported present (unless it is unmounted or its effect is cleaned
\* up first).
C20_GrantedLeadsToActive ==
    (mounted /\ streamRef # <<>>)
        ~> \/ ~mounted
           \/ streamRef = <<>>
           \/ /\ status = "active"
              /\ srcObject = streamRef
              /\ intervalId \/ camLog.reportedPresent

----------------------------------------------------------------------------
(* Properties of presence detection.                                       *)

----------------------------------------------------------------------------
(* Properties of feedbackService.                                          *)

RealUsers == FeedbackUsers \ {""}

\* h holds the last Len(h) of the sessions saved, in the order of saving
MostRecentOf(h, saved) ==
    /\ Len(h) <= Len(saved)
    /\ \A i \in 1..Len(h) : h[i] = saved[Len(saved) - Len(h) + i]

\* C22: after any sequence of saves, a user's stored history holds at most
\* 100 sessions, and they are the most recently saved min(n, 100) sessions
\* in the order they were saved.
C22_HistoryIsLastHundred ==
    \A u \in RealUsers :
        /\ Len(getUserFeedbacks(feedbackStore, u)) <= 100
        /\ Len(getUserFeedbacks(feedbackStore, u)) =
               IF Len(fbLog.saved[u]) < 100 THEN Len(fbLog.saved[u]) ELSE 100
        /\ MostRecentOf(getUserFeedbacks(feedbackStore, u), fbLog.saved[u])

\* a save that succeeded and pushed the oldest session out
C22_Witness ==
    /\ fbResult.success
    /\ fbResult.op = "saveFeedback"
    /\ Len(fbLog.saved[fbResult.user]) > 100
    /\ Len(getUserFeedbacks(feedbackStore, fbResult.user)) = 100

\* the step is a call of endSessionAndSaveFeedbacks for user u
EndCall(u) ==
    /\ fbLog'.calls = fbLog.calls + 1
    /\ fbResult'.op = "endSessionAndSaveFeedbacks"
    /\ fbResult'.user = u

\* history h2 is history h with one more record, of the given items and
\* their mean, the oldest record making room at the limit
GainsOneSession(h, h2, items) ==
    /\ Len(h2) = IF Len(h) < 100 THEN Len(h) + 1 ELSE 100
    /\ h2[Len(h2)].feedbacks = items
    /\ h2[Len(h2)].averageScore.num * Len(items) =
           SumItemScores(items) * h2[Len(h2)].averageScore.den
    /\ MostRecentOf(SubSeq(h2, 1, Len(h2) - 1), h)

LastSaved(u) ==
    getUserFeedbacks(feedbackStore, u)[Len(getUserFeedbacks(feedbackStore, u))]

C24_FailedEndKeepsBuffer ==
    [][\A u \in RealUsers :
          (EndCall(u) /\ ~fbResult'.success)
              => feedbackStore'[TempKey(u)] = feedbackStore[TempKey(u)]]_vars

----------------------------------------------------------------------------
(* Properties of the streak.                                               *)

\* the step is a call of updateProfileOnSessionEnd
ProfileUpdated == profile'.interviewsCompleted = profile.interviewsCompleted + 1

\* C25: the first session ever sets currentStreak to 1; a session on the
\* day of the last one leaves it unchanged; a session on the day after the
\* last one increases it by exactly 1; any other gap resets it to 1; after
\* every call longestStreak is the largest currentStreak reached so far,
\* and at least currentStreak.
C25_StreakByCalendarDay ==
    [][ProfileUpdated =>
          /\ profile.interviewsCompleted = 0 => profile'.currentStreak = 1
          /\ profile.lastSessionDate = <<clockDay>>
                 => profile'.currentStreak = profile.currentStreak
          /\ profile.lastSessionDate = <<clockDay - 1>>
                 => profile'.currentStreak = profile.currentStreak + 1
          /\ (/\ profile.lastSessionDate # <<clockDay>>
              /\ profile.lastSessionDate # <<clockDay - 1>>)
                 => profile'.currentStreak = 1
          /\ profile'.lastSessionDate = <<clockDay>>
          /\ profile'.longestStreak = maxStreak'
          /\ profile'.longestStreak >= profile'.currentStreak]_vars

\* a streak of two days or more was broken by a gap
C25_Witness ==
    /\ profile.interviewsCompleted >= 3
    /\ profile.longestStreak >= 2
    /\ profile.currentStreak = 1
    /\ maxStreak = profile.longestStreak

====
